---- MODULE Spec2Model ----
(***************************************************************************)
(* Record I/O of infinipic (recordio.h, recordio.cc): a RecordWriter that  *)
(* appends frames  magic | length | payload  to a std::ofstream and a      *)
(* RecordReader that consumes them from a std::ifstream.                   *)
(*                                                                         *)
(* Bytes are 0..255.  Objects are stored as their byte image on a          *)
(* little-endian LP64 host: int is 4 bytes, size_t is 8 bytes.             *)
(***************************************************************************)
EXTENDS Integers, Sequences, FiniteSets, TLC

(***************************************************************************)
(* Bounds                                                                  *)
(***************************************************************************)
MaxWrites == 2        \* calls made on the RecordWriter
MaxReads == 3         \* calls made on the RecordReader
MaxRecords == 3       \* records of a file written and read back whole
MaxInstanceCalls == 2 \* calls made on each of several instances
MaxThumbnails == 2    \* thumbnails added to a ThumbnailLibrary

(***************************************************************************)
(* Program constants and byte images                                       *)
(***************************************************************************)
kMagicNumber == 1054286602       \* 0x3ed7230a
SizeofInt == 4
SizeofSizeT == 8

\* every length of 2^24 or more; no stream of the model is that long
HugeLen == 256 * 65536

NULL == 0

\* a bool as the caller sees it
Bool(b) == IF b THEN "true" ELSE "false"

Pow256(i) == IF i = 0 THEN 1 ELSE IF i = 1 THEN 256 ELSE IF i = 2 THEN 65536 ELSE 16777216

\* reinterpret_cast<const char*>(&kMagicNumber): the 4 bytes of an int
IntBytes(v) == [i \in 1..SizeofInt |-> (v \div Pow256(i - 1)) % 256]

\* the int stored in 4 bytes (two's complement)
BytesToInt(b) ==
  b[1] + 256 * b[2] + 65536 * b[3]
    + 16777216 * (IF b[4] >= 128 THEN b[4] - 256 ELSE b[4])

\* reinterpret_cast<const char*>(&len): the 8 bytes of a size_t below 2^24
SizeBytes(n) ==
  [i \in 1..SizeofSizeT |-> IF i <= 3 THEN (n \div Pow256(i - 1)) % 256 ELSE 0]

\* the size_t stored in 8 bytes, capped at HugeLen
BytesToSize(b) ==
  IF \E i \in 4..SizeofSizeT : b[i] # 0
    THEN HugeLen
    ELSE b[1] + 256 * b[2] + 65536 * b[3]

Take(s, n) == SubSeq(s, 1, IF n < Len(s) THEN n ELSE Len(s))

\* the object `old` after its first Len(got) bytes were stored over
Overlay(old, got) == got \o SubSeq(old, Len(got) + 1, Len(old))

Zeros(n) == [i \in 1..n |-> 0]

(***************************************************************************)
(* Inputs                                                                  *)
(***************************************************************************)
\* payloads handed to WriteRecord: "", "ABC", "DEFG"
Payloads == { <<>>, <<65, 66, 67>>, <<68, 69, 70, 71>> }

\* sizeof(T) of the plain-data types used with Write<T> and Read<T>
TypeSizes == { Len(p) : p \in Payloads } \ {0}

\* the values of a type T of size n
TValues(n) == { p \in Payloads \cup {<<67, 66, 65>>} : Len(p) = n }

\* protocol messages, named by their serialization
Messages == { <<>> }

\* message.SerializeAsString()
SerializeAsString(m) == m

\* message->ParseFromArray(buffer, size): the empty array parses as the
\* empty message; 'A' and 'D' start a field that the array cuts short
ParseFromArray(bytes) == bytes \in Messages

\* a byte a damaged file holds in place of the written one
DamageBytes == { 255 }

VARIABLES
  phase,      \* "write": the RecordWriter is in use; "read": the RecordReader
  op,         \* the operation that ran last
  \* the std::ofstream and what the writer's caller saw
  sink,       \* bytes the sink holds
  ofail,      \* failbit or badbit of the ofstream
  oopen,      \* the ofstream is open
  wret,       \* result of the last RecordWriter call
  wcalls,     \* number of WriteRecord / Write<T> / WriteProtocolMessage calls
  written,    \* payloads of the write calls that returned true
  wallok,     \* every write call so far returned true
  win,        \* the last write call's buffer and the room the sink had for it
  \* the std::ifstream
  src,        \* bytes of the file the reader was opened on
  damaged,    \* src differs from what the writer left
  pos,        \* read position
  ieof,       \* eofbit
  ifail,      \* failbit
  iopen,
  \* free store
  heap,       \* set of [id, data]: arrays made by new[] and not yet deleted
  nalloc,     \* number of new[] that succeeded
  handed,     \* ids stored through *buffer by a raw ReadRecord returning true
  \* the caller's objects
  outBuf,     \* *buffer of the raw ReadRecord: NULL or the id of an array
  outLen,     \* *len of the raw ReadRecord, 8 bytes
  outStr,     \* *data of ReadRecord(std::string*)
  outT,       \* *t of Read<T>, by sizeof(T)
  outMsg,     \* *message: [state, value], state "unset", "partial" or "parsed"
  \* what the reader's caller saw
  rret,       \* result of the last RecordReader call: "true", "false", "throw", "none"
  rexit,      \* where the last read left the frame-reading code
  rcalls,     \* number of read calls
  rsize,      \* sizeof(T) of the last call when it was Read<T>, else 0
  ruse,       \* how the reader was used so far: [name, size], where name is
              \* "none", "ReadRecord" (either overload only), "Read<T>" (one
              \* sizeof(T) only) or "mixed"
  rfailed,    \* some read call has returned false
  delivered,  \* payloads of the read calls that returned true, in order
  \* several instances on streams of their own
  insts,      \* the instances: [class, file_], file_ NULL or the stream
              \* the instance was made on
  streams,    \* the streams instances are made on: [bytes, pos, eof, fail]
  opened,     \* each stream as it was when its instance was made
  calls,      \* calls made on each instance: [name, arg, room, ret, data]
  \* the ThumbnailLibrary objects of infinipic.cc
  thumbnails_ \* [gen, load]: thumbnails_ of the library that is written
              \* and of the library that is read

wvars == <<sink, ofail, oopen, wret, wcalls, written, wallok, win>>
ivars == <<src, damaged, pos, ieof, ifail, iopen>>
hvars == <<heap, nalloc, handed>>
ovars == <<outBuf, outLen, outStr, outT, outMsg>>
rvars == <<rret, rexit, rcalls, rsize, ruse, rfailed, delivered>>
svars == <<phase, op, wvars, ivars, hvars, ovars, rvars>>
pvars == <<insts, streams, opened, calls>>
lvars == <<thumbnails_>>
vars == <<svars, pvars, lvars>>

(***************************************************************************)
(* std::ostream::write on the sink.  room is the number of bytes the sink  *)
(* still accepts; a write that is cut short sets badbit, and a stream that *)
(* is not good() writes nothing.                                           *)
(***************************************************************************)
\* a write that does not look at the stream's flags
OWriteUnchecked(st, bytes) ==
  IF Len(bytes) <= st.room
    THEN [out |-> st.out \o bytes, fail |-> st.fail, room |-> st.room - Len(bytes)]
    ELSE [out |-> st.out \o Take(bytes, st.room), fail |-> TRUE, room |-> 0]

OWrite(st, bytes) ==
  IF st.fail
    THEN st
    ELSE IF Len(bytes) <= st.room
      THEN [out |-> st.out \o bytes, fail |-> FALSE, room |-> st.room - Len(bytes)]
      ELSE [out |-> st.out \o Take(bytes, st.room), fail |-> TRUE, room |-> 0]

\* WriteRecord without the write of the length
WriteRecordOnNoLength(st, buffer) ==
  LET s1 == OWrite(st, IntBytes(kMagicNumber))
      s3 == OWrite(s1, buffer)
  IN  [st |-> s3, ret |-> Bool(~s3.fail)]

\* WriteRecord that takes its result before the payload is written
WriteRecordOnEarlyResult(st, buffer) ==
  LET s1 == OWrite(st, IntBytes(kMagicNumber))
      s2 == OWrite(s1, SizeBytes(Len(buffer)))
      s3 == OWrite(s2, buffer)
  IN  [st |-> s3, ret |-> Bool(~s2.fail)]

\* WriteRecord that writes the length as an int
WriteRecordOnIntLength(st, buffer) ==
  LET s1 == OWrite(st, IntBytes(kMagicNumber))
      s2 == OWrite(s1, IntBytes(Len(buffer)))
      s3 == OWrite(s2, buffer)
  IN  [st |-> s3, ret |-> Bool(~s3.fail)]

\* RecordWriter::WriteRecord(const char* buffer, size_t len)
WriteRecordOn(st, buffer) ==
  LET s1 == OWrite(st, IntBytes(kMagicNumber))
      s2 == OWrite(s1, SizeBytes(Len(buffer)))
      s3 == OWrite(s2, buffer)
  IN  [st |-> s3, ret |-> Bool(~s3.fail)]

\* win when the last call on the writer wrote nothing
NoCall == [data |-> <<>>, room |-> 0]

FrameLen(buffer) == SizeofInt + SizeofSizeT + Len(buffer)

DoWrite(name, buffer, room) ==
  /\ phase = "write"
  /\ oopen
  /\ LET r == WriteRecordOn([out |-> sink, fail |-> ofail, room |-> room], buffer)
     IN  /\ sink' = r.st.out
         /\ ofail' = r.st.fail
         /\ wret' = r.ret
         /\ written' = IF r.ret = "true" THEN Append(written, buffer) ELSE written
         /\ wallok' = (wallok /\ r.ret = "true")
  /\ wcalls' = wcalls + 1
  /\ win' = [data |-> buffer, room |-> room]
  /\ op' = name
  /\ UNCHANGED <<phase, oopen, ivars, hvars, ovars, rvars, pvars>>

\* the room the sink may have left when a frame of buffer is written: all
\* of it, the end of each of the three writes, and a place inside each
Rooms(buffer) ==
  { r \in { 0, 1, SizeofInt, SizeofInt + 1, SizeofInt + SizeofSizeT,
            FrameLen(buffer) - 1, FrameLen(buffer) } : r <= FrameLen(buffer) }

WriteRecord ==
  /\ \E data \in Payloads : \E room \in Rooms(data) :
       DoWrite("WriteRecord", data, room)
  /\ UNCHANGED lvars

\* RecordWriter::Write<T>(const T& t)
WriteT ==
  /\ \E n \in TypeSizes : \E t \in TValues(n) : \E room \in Rooms(t) :
       DoWrite("Write<T>", t, room)
  /\ UNCHANGED lvars

\* RecordWriter::WriteProtocolMessage
WriteProtocolMessage ==
  /\ \E m \in Messages : \E room \in Rooms(SerializeAsString(m)) :
       DoWrite("WriteProtocolMessage", SerializeAsString(m), room)
  /\ UNCHANGED lvars

\* RecordWriter::Close: std::ofstream::close sets failbit when the file is
\* not open, and clears no flag
CloseWriter ==
  /\ phase = "write"
  /\ oopen
  /\ ofail' = (ofail \/ ~oopen)
  /\ wret' = Bool(ofail')
  /\ oopen' = FALSE
  /\ op' = "WriterClose"
  /\ win' = NoCall
  /\ UNCHANGED <<phase, sink, wcalls, written, wallok, ivars, hvars, ovars, rvars>>
  /\ UNCHANGED pvars

WriterClose == CloseWriter /\ UNCHANGED lvars

(***************************************************************************)
(* std::ifstream on the file.  st = [pos, eof, fail].                      *)
(***************************************************************************)
Good(st) == ~st.eof /\ ~st.fail

\* where a damaged file differs from the written one: the first byte of
\* the first magic, and the lowest, fourth and top byte of the first length
DamagePositions ==
  { 1, SizeofInt + 1, SizeofInt + 4, SizeofInt + SizeofSizeT }

\* the files a damaged medium may give back for `bytes`
DamagedFiles(bytes) ==
  { [bytes EXCEPT ![i] = b] :
      i \in { j \in DamagePositions : j <= Len(bytes) }, b \in DamageBytes }
    \ {bytes}

\* a read that looks at no flag of the stream, and extracts nothing when the
\* file ends before n bytes
IReadForgetful(bytes, st, n) ==
  IF n <= Len(bytes) - st.pos
    THEN [st |-> [pos |-> st.pos + n, eof |-> FALSE, fail |-> FALSE],
          got |-> SubSeq(bytes, st.pos + 1, st.pos + n)]
    ELSE [st |-> [pos |-> st.pos, eof |-> TRUE, fail |-> TRUE], got |-> <<>>]

\* a read that takes the last byte of the file for its end
IReadOffByOne(bytes, st, n) ==
  IF st.eof \/ st.fail
    THEN [st |-> [st EXCEPT !.fail = TRUE], got |-> <<>>]
    ELSE IF n < Len(bytes) - st.pos
      THEN [st |-> [st EXCEPT !.pos = @ + n],
            got |-> SubSeq(bytes, st.pos + 1, st.pos + n)]
      ELSE [st |-> [pos |-> Len(bytes), eof |-> TRUE, fail |-> TRUE],
            got |-> SubSeq(bytes, st.pos + 1, Len(bytes))]

\* a read that hands over what is left of the file without setting failbit
IReadShortOk(bytes, st, n) ==
  IF ~Good(st)
    THEN [st |-> [st EXCEPT !.fail = TRUE], got |-> <<>>]
    ELSE IF n <= Len(bytes) - st.pos
      THEN [st |-> [st EXCEPT !.pos = @ + n],
            got |-> SubSeq(bytes, st.pos + 1, st.pos + n)]
      ELSE [st |-> [pos |-> Len(bytes), eof |-> TRUE, fail |-> FALSE],
            got |-> SubSeq(bytes, st.pos + 1, Len(bytes))]

\* a read that starts again at the beginning of the file when it meets the
\* end
IReadRewind(bytes, st, n) ==
  IF ~Good(st)
    THEN [st |-> [st EXCEPT !.fail = TRUE], got |-> <<>>]
    ELSE IF n <= Len(bytes) - st.pos
      THEN [st |-> [st EXCEPT !.pos = @ + n],
            got |-> SubSeq(bytes, st.pos + 1, st.pos + n)]
    ELSE IF n <= Len(bytes)
      THEN [st |-> [st EXCEPT !.pos = n], got |-> SubSeq(bytes, 1, n)]
      ELSE [st |-> [pos |-> Len(bytes), eof |-> TRUE, fail |-> TRUE],
            got |-> SubSeq(bytes, st.pos + 1, Len(bytes))]

\* std::istream::read(s, n): a stream that is not good() sets failbit and
\* extracts nothing; the end of the file before n bytes sets eofbit|failbit
IRead(bytes, st, n) ==
  IF ~Good(st)
    THEN [st |-> [st EXCEPT !.fail = TRUE], got |-> <<>>]
    ELSE IF n <= Len(bytes) - st.pos
      THEN [st |-> [st EXCEPT !.pos = @ + n],
            got |-> SubSeq(bytes, st.pos + 1, st.pos + n)]
      ELSE [st |-> [pos |-> Len(bytes), eof |-> TRUE, fail |-> TRUE],
            got |-> SubSeq(bytes, st.pos + 1, Len(bytes))]

\* a size_t above PTRDIFF_MAX: no array is that long
ExceedsMaxSize(b) == b[SizeofSizeT] >= 128

\* new char[*len]: a request of HugeLen or more is granted only when the
\* free store has that much (mem), and never above the largest array size;
\* std::bad_alloc is thrown otherwise
NewGranted(b, mem) ==
  BytesToSize(b) < HugeLen \/ (mem /\ ~ExceedsMaxSize(b))

\* ReadRecord that does not compare the magic number
ReadRecordOnAnyMagic(bytes, st, len, mem) ==
  LET r1 == IRead(bytes, st, SizeofInt)
      r2 == IRead(bytes, r1.st, SizeofSizeT)
      len2 == Overlay(len, r2.got)
      r3 == IRead(bytes, r2.st, BytesToSize(len2))
  IN  IF r1.st.fail
        THEN [st |-> r1.st, ret |-> "false", data |-> <<>>, len |-> len,
              made |-> FALSE, exit |-> "magic"]
      ELSE IF r2.st.fail
        THEN [st |-> r2.st, ret |-> "false", data |-> <<>>, len |-> len2,
              made |-> FALSE, exit |-> "length"]
      ELSE IF ~NewGranted(len2, mem)
        THEN [st |-> r2.st, ret |-> "throw", data |-> <<>>, len |-> len2,
              made |-> FALSE, exit |-> "bad_alloc"]
      ELSE IF r3.st.fail
        THEN [st |-> r3.st, ret |-> "false", data |-> <<>>, len |-> len2,
              made |-> TRUE, exit |-> "payload"]
      ELSE [st |-> r3.st, ret |-> "true", data |-> r3.got, len |-> len2,
            made |-> TRUE, exit |-> "ok"]

\* ReadRecord that reads one payload byte fewer than the length says
ReadRecordOnShortArray(bytes, st, len, mem) ==
  LET r1 == IRead(bytes, st, SizeofInt)
      magic_number == BytesToInt(Overlay(Zeros(SizeofInt), r1.got))
      r2 == IRead(bytes, r1.st, SizeofSizeT)
      len2 == Overlay(len, r2.got)
      n == BytesToSize(len2)
      r3 == IRead(bytes, r2.st, IF n > 0 THEN n - 1 ELSE 0)
  IN  IF r1.st.fail \/ magic_number # kMagicNumber
        THEN [st |-> r1.st, ret |-> "false", data |-> <<>>, len |-> len,
              made |-> FALSE, exit |-> "magic"]
      ELSE IF r2.st.fail
        THEN [st |-> r2.st, ret |-> "false", data |-> <<>>, len |-> len2,
              made |-> FALSE, exit |-> "length"]
      ELSE IF ~NewGranted(len2, mem)
        THEN [st |-> r2.st, ret |-> "throw", data |-> <<>>, len |-> len2,
              made |-> FALSE, exit |-> "bad_alloc"]
      ELSE IF r3.st.fail
        THEN [st |-> r3.st, ret |-> "false", data |-> <<>>, len |-> len2,
              made |-> TRUE, exit |-> "payload"]
      ELSE [st |-> r3.st, ret |-> "true", data |-> r3.got, len |-> len2,
            made |-> TRUE, exit |-> "ok"]

\* ReadRecord that reads the length before it compares the magic number
ReadRecordOnLengthFirst(bytes, st, len, mem) ==
  LET r1 == IRead(bytes, st, SizeofInt)
      magic_number == BytesToInt(Overlay(Zeros(SizeofInt), r1.got))
      r2 == IRead(bytes, r1.st, SizeofSizeT)
      len2 == Overlay(len, r2.got)
      r3 == IRead(bytes, r2.st, BytesToSize(len2))
  IN  IF r1.st.fail
        THEN [st |-> r1.st, ret |-> "false", data |-> <<>>, len |-> len,
              made |-> FALSE, exit |-> "magic"]
      ELSE IF magic_number # kMagicNumber
        THEN [st |-> r2.st, ret |-> "false", data |-> <<>>, len |-> len2,
              made |-> FALSE, exit |-> "magic"]
      ELSE IF r2.st.fail
        THEN [st |-> r2.st, ret |-> "false", data |-> <<>>, len |-> len2,
              made |-> FALSE, exit |-> "length"]
      ELSE IF ~NewGranted(len2, mem)
        THEN [st |-> r2.st, ret |-> "throw", data |-> <<>>, len |-> len2,
              made |-> FALSE, exit |-> "bad_alloc"]
      ELSE IF r3.st.fail
        THEN [st |-> r3.st, ret |-> "false", data |-> <<>>, len |-> len2,
              made |-> TRUE, exit |-> "payload"]
      ELSE [st |-> r3.st, ret |-> "true", data |-> r3.got, len |-> len2,
            made |-> TRUE, exit |-> "ok"]

(***************************************************************************)
(* RecordReader::ReadRecord(const char** buffer, size_t* len) as a         *)
(* function of the stream, the caller's *len and the free store's answer.  *)
(* Result: the stream, the value returned ("throw" for an exception), the  *)
(* bytes of the array stored in *buffer (or NULL), *len, whether new[]     *)
(* made an array, and the return statement reached.                        *)
(***************************************************************************)
ReadRecordOn(bytes, st, len, mem) ==
  LET r1 == IRead(bytes, st, SizeofInt)
      magic_number == BytesToInt(Overlay(Zeros(SizeofInt), r1.got))
      r2 == IRead(bytes, r1.st, SizeofSizeT)
      len2 == Overlay(len, r2.got)
      n == BytesToSize(len2)
      r3 == IRead(bytes, r2.st, n)
  IN  IF r1.st.fail \/ magic_number # kMagicNumber
        THEN [st |-> r1.st, ret |-> "false", data |-> <<>>, len |-> len,
              made |-> FALSE, exit |-> "magic"]
      ELSE IF r2.st.fail
        THEN [st |-> r2.st, ret |-> "false", data |-> <<>>, len |-> len2,
              made |-> FALSE, exit |-> "length"]
      ELSE IF ~NewGranted(len2, mem)
        THEN [st |-> r2.st, ret |-> "throw", data |-> <<>>, len |-> len2,
              made |-> FALSE, exit |-> "bad_alloc"]
      ELSE IF r3.st.fail
        THEN [st |-> r3.st, ret |-> "false", data |-> <<>>, len |-> len2,
              made |-> TRUE, exit |-> "payload"]
      ELSE [st |-> r3.st, ret |-> "true", data |-> r3.got, len |-> len2,
            made |-> TRUE, exit |-> "ok"]

\* ReadRecordSized that returns file_->fail() for its last read
ReadRecordSizedOnInverted(bytes, st, dest, len) ==
  LET r1 == IRead(bytes, st, SizeofInt)
      magic_number == BytesToInt(Overlay(Zeros(SizeofInt), r1.got))
      r2 == IRead(bytes, r1.st, SizeofSizeT)
      r3 == IRead(bytes, r2.st, len)
  IN  IF r1.st.fail \/ magic_number # kMagicNumber
        THEN [st |-> r1.st, ret |-> "false", dest |-> dest, exit |-> "magic"]
      ELSE IF r2.st.fail
        THEN [st |-> r2.st, ret |-> "false", dest |-> dest, exit |-> "length"]
      ELSE IF BytesToSize(r2.got) # len
        THEN [st |-> r2.st, ret |-> "false", dest |-> dest, exit |-> "size"]
      ELSE [st |-> r3.st, ret |-> Bool(r3.st.fail), dest |-> Overlay(dest, r3.got),
            exit |-> IF r3.st.fail THEN "payload" ELSE "ok"]

\* ReadRecordSized that does not compare the length with sizeof(T)
ReadRecordSizedOnAnySize(bytes, st, dest, len) ==
  LET r1 == IRead(bytes, st, SizeofInt)
      magic_number == BytesToInt(Overlay(Zeros(SizeofInt), r1.got))
      r2 == IRead(bytes, r1.st, SizeofSizeT)
      r3 == IRead(bytes, r2.st, len)
  IN  IF r1.st.fail \/ magic_number # kMagicNumber
        THEN [st |-> r1.st, ret |-> "false", dest |-> dest, exit |-> "magic"]
      ELSE IF r2.st.fail
        THEN [st |-> r2.st, ret |-> "false", dest |-> dest, exit |-> "length"]
      ELSE [st |-> r3.st, ret |-> Bool(~r3.st.fail), dest |-> Overlay(dest, r3.got),
            exit |-> IF r3.st.fail THEN "payload" ELSE "ok"]

(***************************************************************************)
(* RecordReader::ReadRecordSized(char* buffer, size_t len): dest is the    *)
(* caller's object of len bytes.                                           *)
(***************************************************************************)
ReadRecordSizedOn(bytes, st, dest, len) ==
  LET r1 == IRead(bytes, st, SizeofInt)
      magic_number == BytesToInt(Overlay(Zeros(SizeofInt), r1.got))
      r2 == IRead(bytes, r1.st, SizeofSizeT)
      r3 == IRead(bytes, r2.st, len)
  IN  IF r1.st.fail \/ magic_number # kMagicNumber
        THEN [st |-> r1.st, ret |-> "false", dest |-> dest, exit |-> "magic"]
      ELSE IF r2.st.fail
        THEN [st |-> r2.st, ret |-> "false", dest |-> dest, exit |-> "length"]
      ELSE IF BytesToSize(r2.got) # len
        THEN [st |-> r2.st, ret |-> "false", dest |-> dest, exit |-> "size"]
      ELSE [st |-> r3.st, ret |-> Bool(~r3.st.fail), dest |-> Overlay(dest, r3.got),
            exit |-> IF r3.st.fail THEN "payload" ELSE "ok"]

IStream == [pos |-> pos, eof |-> ieof, fail |-> ifail]

\* the writer is done with the file; the std::ifstream is opened on it and
\* a RecordReader made on it
OpenOn(f) ==
  /\ phase = "write"
  /\ ~oopen
  /\ phase' = "read"
  /\ src' = f
  /\ damaged' = (f # sink)
  /\ pos' = 0
  /\ ieof' = FALSE
  /\ ifail' = FALSE
  /\ iopen' = TRUE
  /\ op' = "RecordReader"
  /\ UNCHANGED <<wvars, hvars, ovars, rvars, pvars>>

\* the file as the writer left it, or as a damaged medium gives it back
OpenForRead ==
  /\ \E f \in {sink} \cup (IF wallok THEN DamagedFiles(sink) ELSE {}) : OpenOn(f)
  /\ UNCHANGED lvars

Use(name, size) == [name |-> name, size |-> size]

UseAfter(use, name, size) ==
  LET this == IF name = "Read<T>" THEN Use(name, size)
              ELSE IF name \in {"ReadRecord", "ReadRecordString"}
                THEN Use("ReadRecord", 0)
                ELSE Use("mixed", 0)
  IN  IF use.name = "none" \/ use = this THEN this ELSE Use("mixed", 0)

\* what every read call leaves behind
ReadDone(name, size, st, ret, exit, data) ==
  /\ pos' = st.pos
  /\ ieof' = st.eof
  /\ ifail' = st.fail
  /\ rret' = ret
  /\ rexit' = exit
  /\ rcalls' = rcalls + 1
  /\ rsize' = size
  /\ ruse' = UseAfter(ruse, name, size)
  /\ rfailed' = (rfailed \/ ret = "false")
  /\ delivered' = IF ret = "true" THEN Append(delivered, data) ELSE delivered
  /\ op' = name
  /\ UNCHANGED <<phase, wvars, src, damaged, iopen, pvars>>

CanRead == phase = "read" /\ iopen

\* RecordReader::ReadRecord(const char** buffer, size_t* len)
ReadRecord ==
  /\ CanRead
  /\ \E mem \in BOOLEAN :
       LET r == ReadRecordOn(src, IStream, outLen, mem)
           id == nalloc + 1
       IN  /\ nalloc' = IF r.made THEN id ELSE nalloc
           /\ heap' = IF r.ret = "true"
                        THEN heap \cup {[id |-> id, data |-> r.data]}
                        ELSE heap
           /\ handed' = IF r.ret = "true" THEN handed \cup {id} ELSE handed
           /\ outBuf' = IF r.ret = "true" THEN id ELSE NULL
           /\ outLen' = r.len
           /\ ReadDone("ReadRecord", 0, r.st, r.ret, r.exit,
                       Take(r.data, BytesToSize(r.len)))
  /\ UNCHANGED <<outStr, outT, outMsg, lvars>>

\* RecordReader::ReadRecord(std::string* data)
ReadRecordString ==
  /\ CanRead
  /\ \E mem \in BOOLEAN :
       LET r == ReadRecordOn(src, IStream, SizeBytes(0), mem)
       IN  /\ nalloc' = IF r.made THEN nalloc + 1 ELSE nalloc
           /\ outStr' = IF r.ret = "true"
                          THEN Take(r.data, BytesToSize(r.len))
                          ELSE outStr
           /\ ReadDone("ReadRecordString", 0, r.st, r.ret, r.exit,
                       Take(r.data, BytesToSize(r.len)))
  /\ UNCHANGED <<heap, handed, outBuf, outLen, outT, outMsg, lvars>>

\* RecordReader::ReadProtocolMessage
ReadProtocolMessage ==
  /\ CanRead
  /\ \E mem \in BOOLEAN :
       LET r == ReadRecordOn(src, IStream, SizeBytes(0), mem)
           id == nalloc + 1
           parsed == r.ret = "true" /\ ParseFromArray(Take(r.data, BytesToSize(r.len)))
       IN  /\ nalloc' = IF r.made THEN id ELSE nalloc
           /\ heap' = IF r.ret = "true" /\ ~parsed
                        THEN heap \cup {[id |-> id, data |-> r.data]}
                        ELSE heap
           /\ outMsg' = IF r.ret # "true" THEN outMsg
                        ELSE IF parsed THEN [state |-> "parsed", value |-> r.data]
                        ELSE [state |-> "partial", value |-> <<>>]
           /\ ReadDone("ReadProtocolMessage", 0, r.st,
                       IF r.ret = "true" THEN Bool(parsed) ELSE r.ret,
                       IF r.ret = "true" /\ ~parsed THEN "parse" ELSE r.exit,
                       r.data)
  /\ UNCHANGED <<handed, outBuf, outLen, outStr, outT, lvars>>

\* RecordReader::Read<T>(T* t)
ReadT ==
  /\ CanRead
  /\ \E n \in TypeSizes :
       LET r == ReadRecordSizedOn(src, IStream, outT[n], n)
       IN  /\ outT' = [outT EXCEPT ![n] = r.dest]
           /\ ReadDone("Read<T>", n, r.st, r.ret, r.exit, r.dest)
  /\ UNCHANGED <<hvars, outBuf, outLen, outStr, outMsg, lvars>>

\* RecordReader::Close: std::ifstream::close sets failbit when the file is
\* not open, and clears no flag
CloseReader ==
  /\ phase = "read"
  /\ iopen
  /\ ifail' = (ifail \/ ~iopen)
  /\ rret' = Bool(ifail')
  /\ iopen' = FALSE
  /\ op' = "ReaderClose"
  /\ UNCHANGED <<phase, wvars, src, damaged, pos, ieof, hvars, ovars,
                 rexit, rcalls, ruse, rfailed, delivered, pvars>>
  /\ rsize' = 0

ReaderClose == CloseReader /\ UNCHANGED lvars

\* one RecordWriter on an empty file; nothing read yet
InitStream ==
  /\ phase = "write"
  /\ op = "new"
  /\ sink = <<>>
  /\ ofail = FALSE
  /\ oopen = TRUE
  /\ wret = "none"
  /\ wcalls = 0
  /\ written = <<>>
  /\ wallok = TRUE
  /\ win = NoCall
  /\ src = <<>>
  /\ damaged = FALSE
  /\ pos = 0
  /\ ieof = FALSE
  /\ ifail = FALSE
  /\ iopen = FALSE
  /\ heap = {}
  /\ nalloc = 0
  /\ handed = {}
  /\ outBuf = NULL
  /\ outLen = SizeBytes(0)
  /\ outStr = <<>>
  /\ outT = [n \in TypeSizes |-> Zeros(n)]
  /\ outMsg = [state |-> "unset", value |-> <<>>]
  /\ rret = "none"
  /\ rexit = "none"
  /\ rcalls = 0
  /\ rsize = 0
  /\ ruse = Use("none", 0)
  /\ rfailed = FALSE
  /\ delivered = <<>>

Instances == {1, 2}

\* a stream just opened on a file holding `bytes`
NewStream(bytes) == [bytes |-> bytes, pos |-> 0, eof |-> FALSE, fail |-> FALSE]

\* no instance made, no library in use
InitOthers ==
  /\ insts = [i \in Instances |-> [class |-> "none", file_ |-> NULL]]
  /\ streams = [f \in Instances |-> NewStream(<<>>)]
  /\ opened = [f \in Instances |-> NewStream(<<>>)]
  /\ calls = [i \in Instances |-> <<>>]
  /\ thumbnails_ = [gen |-> <<>>, load |-> <<>>]

Init == InitStream /\ InitOthers

\* any calls, on a sink that may run out of room and a medium that may
\* damage the file
Next ==
  \/ wcalls < MaxWrites /\ WriteRecord
  \/ wcalls < MaxWrites /\ WriteT
  \/ wcalls < MaxWrites /\ WriteProtocolMessage
  \/ WriterClose
  \/ OpenForRead
  \/ rcalls < MaxReads /\ ReadRecord
  \/ rcalls < MaxReads /\ ReadRecordString
  \/ rcalls < MaxReads /\ ReadProtocolMessage
  \/ rcalls < MaxReads /\ ReadT
  \/ ReaderClose

Spec == Init /\ [][Next]_vars

\* WriteRecord on a sink with room for the whole frame
WriteRecordWhole ==
  /\ \E data \in Payloads : DoWrite("WriteRecord", data, FrameLen(data))
  /\ UNCHANGED lvars

\* WriteRecord on a sink that fails anywhere before the end of the frame
WriteRecordCut ==
  /\ \E data \in Payloads : \E room \in 0..(FrameLen(data) - 1) :
       DoWrite("WriteRecord", data, room)
  /\ UNCHANGED lvars

\* the reader is made on the file as the writer left it
OpenWhole == OpenOn(sink) /\ UNCHANGED lvars

\* records written with WriteRecord, whole or until the sink fails, and
\* read back with ReadRecord, one call more than there can be records
NextRecords ==
  \/ wcalls < MaxRecords /\ WriteRecordWhole
  \/ wcalls < MaxRecords /\ WriteRecordCut
  \/ WriterClose
  \/ OpenWhole
  \/ rcalls <= MaxRecords /\ ReadRecord
  \/ rcalls <= MaxRecords /\ ReadRecordString
  \/ ReaderClose

SpecRecords == Init /\ [][NextRecords]_vars

(***************************************************************************)
(* Several instances.  Instance i is made on stream i, and every call on   *)
(* it goes through its file_.                                              *)
(***************************************************************************)
\* file_ as a static member: one pointer for all instances
BindStatic(is, i, class, file) ==
  [j \in DOMAIN is |->
     IF j = i THEN [class |-> class, file_ |-> file]
     ELSE [is[j] EXCEPT !.file_ = file]]

\* RecordWriter::RecordWriter(file) : file_(file), and the same of
\* RecordReader
Bind(is, i, class, file) ==
  [is EXCEPT ![i] = [class |-> class, file_ |-> file]]

\* the file left by WriteRecord calls with the payloads ps
RECURSIVE FileOf(_)
FileOf(ps) ==
  IF ps = <<>> THEN <<>>
  ELSE LET front == SubSeq(ps, 1, Len(ps) - 1)
           last == ps[Len(ps)]
       IN  WriteRecordOn([out |-> FileOf(front), fail |-> FALSE,
                          room |-> FrameLen(last)], last).st.out

\* the files readers are made on: "ABC" and "DEFG"; "DEFG" alone
InstanceFiles ==
  { FileOf(<< <<65, 66, 67>>, <<68, 69, 70, 71>> >>),
    FileOf(<< <<68, 69, 70, 71>> >>) }

\* one call on the stream st: the stream after it and what the caller sees
Apply(st, name, arg, room) ==
  IF name = "WriteRecord"
    THEN LET r == WriteRecordOn([out |-> st.bytes, fail |-> st.fail,
                                 room |-> room], arg)
         IN  [st |-> [st EXCEPT !.bytes = r.st.out, !.fail = r.st.fail],
              ret |-> r.ret, data |-> <<>>]
  ELSE IF name = "ReadRecordString"
    THEN LET r == ReadRecordOn(st.bytes,
                    [pos |-> st.pos, eof |-> st.eof, fail |-> st.fail],
                    SizeBytes(0), TRUE)
         IN  [st |-> [bytes |-> st.bytes, pos |-> r.st.pos, eof |-> r.st.eof,
                      fail |-> r.st.fail],
              ret |-> r.ret, data |-> r.data]
  ELSE LET r == ReadRecordSizedOn(st.bytes,
                  [pos |-> st.pos, eof |-> st.eof, fail |-> st.fail],
                  Zeros(arg), arg)
       IN  [st |-> [bytes |-> st.bytes, pos |-> r.st.pos, eof |-> r.st.eof,
                    fail |-> r.st.fail],
            ret |-> r.ret, data |-> r.dest]

NewRecordWriter(i) ==
  /\ insts[i].class = "none"
  /\ insts' = Bind(insts, i, "RecordWriter", i)
  /\ streams' = [streams EXCEPT ![i] = NewStream(<<>>)]
  /\ opened' = [opened EXCEPT ![i] = NewStream(<<>>)]
  /\ UNCHANGED <<calls, svars, lvars>>

NewRecordReader(i) ==
  /\ insts[i].class = "none"
  /\ insts' = Bind(insts, i, "RecordReader", i)
  /\ \E bytes \in InstanceFiles :
       /\ streams' = [streams EXCEPT ![i] = NewStream(bytes)]
       /\ opened' = [opened EXCEPT ![i] = NewStream(bytes)]
  /\ UNCHANGED <<calls, svars, lvars>>

\* a call on instance i, made on the stream its file_ points to
InstanceCall(i, name, arg, room) ==
  /\ Len(calls[i]) < MaxInstanceCalls
  /\ LET r == Apply(streams[insts[i].file_], name, arg, room)
     IN  /\ streams' = [streams EXCEPT ![insts[i].file_] = r.st]
         /\ calls' = [calls EXCEPT ![i] =
                        Append(@, [name |-> name, arg |-> arg, room |-> room,
                                   ret |-> r.ret, data |-> r.data])]
  /\ UNCHANGED <<insts, opened, svars, lvars>>

\* WriteRecord on a writer whose sink takes the whole frame, or is cut in
\* the length
InstanceWrite(i) ==
  /\ insts[i].class = "RecordWriter"
  /\ \E data \in Payloads \ {<<>>} : \E room \in {SizeofInt + 1, FrameLen(data)} :
       InstanceCall(i, "WriteRecord", data, room)

\* ReadRecord(std::string*) or Read<T> on a reader
InstanceRead(i) ==
  /\ insts[i].class = "RecordReader"
  /\ \/ InstanceCall(i, "ReadRecordString", 0, 0)
     \/ \E n \in TypeSizes : InstanceCall(i, "Read<T>", n, 0)

NextInstances ==
  \/ \E i \in Instances : NewRecordWriter(i)
  \/ \E i \in Instances : NewRecordReader(i)
  \/ \E i \in Instances : InstanceWrite(i)
  \/ \E i \in Instances : InstanceRead(i)

SpecInstances == Init /\ [][NextInstances]_vars

(***************************************************************************)
(* A consumer that reads until the first call that does not return true,   *)
(* then closes: the loop of ThumbnailLibrary::Read, with any of the read   *)
(* operations, on a file of any bytes.  The number of read calls has no    *)
(* bound of its own.                                                       *)
(***************************************************************************)
\* files given to the consumer: none, one to three whole frames, frames
\* cut in the magic, the length and the payload, bytes that are no frame,
\* a frame followed by such bytes, and headers whose length is too long
DrainFiles ==
  LET abc == FileOf(<< <<65, 66, 67>> >>)
  IN  { <<>>,
        abc,
        FileOf(<< <<>>, <<68, 69, 70, 71>> >>),
        FileOf(<< <<65, 66, 67>>, <<>>, <<67, 66, 65>> >>),
        Take(abc, 2),
        Take(abc, SizeofInt + 3),
        Take(abc, SizeofInt + SizeofSizeT + 2),
        <<1, 2, 3, 4, 5>>,
        abc \o <<1, 2, 3, 4, 5>>,
        IntBytes(kMagicNumber) \o <<255, 0, 0, 0, 0, 0, 0, 0>>,
        IntBytes(kMagicNumber) \o <<0, 0, 0, 0, 0, 0, 0, 255>> }

\* a RecordReader made on one of the files; no writer
InitDrain ==
  /\ phase = "read"
  /\ op = "RecordReader"
  /\ sink = <<>>
  /\ ofail = FALSE
  /\ oopen = FALSE
  /\ wret = "none"
  /\ wcalls = 0
  /\ written = <<>>
  /\ wallok = TRUE
  /\ win = NoCall
  /\ src \in DrainFiles
  /\ damaged = (src # sink)
  /\ pos = 0
  /\ ieof = FALSE
  /\ ifail = FALSE
  /\ iopen = TRUE
  /\ heap = {}
  /\ nalloc = 0
  /\ handed = {}
  /\ outBuf = NULL
  /\ outLen = SizeBytes(0)
  /\ outStr = <<>>
  /\ outT = [n \in TypeSizes |-> Zeros(n)]
  /\ outMsg = [state |-> "unset", value |-> <<>>]
  /\ rret = "none"
  /\ rexit = "none"
  /\ rcalls = 0
  /\ rsize = 0
  /\ ruse = Use("none", 0)
  /\ rfailed = FALSE
  /\ delivered = <<>>
  /\ InitOthers

\* the consumer's loop has ended: a call returned false or threw
Stopped == rfailed \/ rret = "throw"

DrainRead ==
  /\ ~Stopped
  /\ \/ ReadRecord
     \/ ReadRecordString
     \/ ReadProtocolMessage
     \/ ReadT

NextDrain ==
  \/ DrainRead
  \/ Stopped /\ ReaderClose

\* the loop goes on calling while the calls return true
SpecDrain == InitDrain /\ [][NextDrain]_vars /\ WF_vars(DrainRead)

(***************************************************************************)
(* ThumbnailLibrary of infinipic.cc: a library is filled by Add and        *)
(* written by Write; another library is filled by Read.                    *)
(***************************************************************************)
\* struct Thumbnail { char filename[256]; uint8_t pixels[3 * 20 * 15]; }
SizeofThumbnail == 256 + 3 * 20 * 15

\* a thumbnail whose bytes are all b
ThumbnailOf(b) == [i \in 1..SizeofThumbnail |-> b]

\* Thumbnail()
Thumbnail == ThumbnailOf(0)

\* the thumbnails given to Add
Thumbnails == { ThumbnailOf(1), ThumbnailOf(2) }

\* pop_back that removes nothing
PopBackNothing(v) == v

\* thumbnails_.pop_back()
PopBack(v) == SubSeq(v, 1, Len(v) - 1)

\* thumbnails_.back() = t
SetBack(v, t) == [v EXCEPT ![Len(v)] = t]

\* ThumbnailLibrary::Add, before Write is called
LibraryAdd ==
  /\ phase = "write"
  /\ oopen
  /\ wcalls = 0
  /\ Len(thumbnails_.gen) < MaxThumbnails
  /\ \E t \in Thumbnails :
       thumbnails_' = [thumbnails_ EXCEPT !.gen = Append(@, t)]
  /\ UNCHANGED <<svars, pvars>>

\* ThumbnailLibrary::Write: one turn of the loop; the result of Write<T> is
\* not looked at
LibraryWrite ==
  /\ wcalls < Len(thumbnails_.gen)
  /\ \E room \in Rooms(thumbnails_.gen[wcalls + 1]) :
       DoWrite("Write<T>", thumbnails_.gen[wcalls + 1], room)
  /\ UNCHANGED lvars

\* ThumbnailLibrary::Write: record_writer.Close() after the loop
LibraryWriteEnd ==
  /\ wcalls = Len(thumbnails_.gen)
  /\ CloseWriter
  /\ UNCHANGED lvars

\* ThumbnailLibrary::Read up to the loop: the file is opened, thumbnails_
\* cleared and the placeholder pushed
LibraryReadBegin ==
  /\ \E f \in {sink} \cup (IF wallok THEN DamagedFiles(sink) ELSE {}) : OpenOn(f)
  /\ thumbnails_' = [thumbnails_ EXCEPT !.load = <<Thumbnail>>]

\* ThumbnailLibrary::Read: one test of the loop, Read<Thumbnail> into
\* thumbnails_.back(), and the push_back of the loop's body when it is true
LibraryRead ==
  /\ CanRead
  /\ ~rfailed
  /\ LET back == thumbnails_.load[Len(thumbnails_.load)]
         r == ReadRecordSizedOn(src, IStream, back, SizeofThumbnail)
         filled == SetBack(thumbnails_.load, r.dest)
     IN  /\ thumbnails_' = [thumbnails_ EXCEPT !.load =
                               IF r.ret = "true" THEN Append(filled, Thumbnail)
                               ELSE filled]
         /\ ReadDone("Read<T>", SizeofThumbnail, r.st, r.ret, r.exit, r.dest)
  /\ UNCHANGED <<hvars, ovars>>

\* ThumbnailLibrary::Read after the loop: pop_back and Close
LibraryReadEnd ==
  /\ rfailed
  /\ CloseReader
  /\ thumbnails_' = [thumbnails_ EXCEPT !.load = PopBack(@)]

NextLibrary ==
  \/ LibraryAdd
  \/ LibraryWrite
  \/ LibraryWriteEnd
  \/ LibraryReadBegin
  \/ LibraryRead
  \/ LibraryReadEnd

SpecLibrary == Init /\ [][NextLibrary]_vars

(***************************************************************************)
(* The frame format, written out byte by byte                              *)
(***************************************************************************)
\* 0x3ed7230a in memory
MagicImage == <<10, 35, 215, 62>>

\* a length below 256 in memory
LengthImage(n) == <<n, 0, 0, 0, 0, 0, 0, 0>>

FrameOf(p) == MagicImage \o LengthImage(Len(p)) \o p

\* the file is the one the writer left, every write having returned true
Whole == phase = "read" /\ wallok /\ ~damaged

\* a read call is the step taken
ReadStep == rcalls' = rcalls + 1

\* a whole header with the right magic lies at the read position
HeaderNext ==
  /\ Len(src) - pos >= 12
  /\ SubSeq(src, pos + 1, pos + 4) = MagicImage

\* the length field of the header at the read position is n
LengthNextIs(n) ==
  LET f == SubSeq(src, pos + 5, pos + 12)
  IN  f[1] = n /\ \A i \in 2..8 : f[i] = 0

\* the length field of the header at the read position is more than what
\* follows the header
LengthNextTooLong ==
  LET f == SubSeq(src, pos + 5, pos + 12)
  IN  (\E i \in 2..8 : f[i] # 0) \/ f[1] > Len(src) - pos - 12

(***************************************************************************)
(* C1. Round-trip: payloads written with WriteRecord, all calls returning  *)
(* true, and read back with ReadRecord until it returns false, come back   *)
(* as exactly the payloads written, in order, each byte for byte: before   *)
(* the first false the k-th read has delivered the k-th payload, and the   *)
(* first false comes after all of them.                                    *)
(***************************************************************************)
C1_RoundTrip ==
  (Whole /\ ruse.name \in {"none", "ReadRecord"}) =>
    IF rfailed
      THEN delivered = written
      ELSE /\ rcalls = Len(delivered)
           /\ rcalls <= Len(written)
           /\ delivered = SubSeq(written, 1, rcalls)

C1_Witness ==
  /\ Whole
  /\ ruse.name = "ReadRecord"
  /\ rfailed
  /\ Len(written) >= 2
  /\ written[1] # written[2]
  /\ delivered = written

(***************************************************************************)
(* C2. No return to Ready, as claimed: once a read operation has returned  *)
(* false, no later read operation on the reader returns true.              *)
(***************************************************************************)
C2_NoReturnToReady ==
  [][(rfailed /\ ReadStep) => rret' # "true"]_vars

(***************************************************************************)
(* C2, amended: once a read operation has returned false and left the      *)
(* stream's fail flag set (the source ended in the magic, the length or    *)
(* the payload), every later read operation returns false, consumes        *)
(* nothing and delivers nothing.                                           *)
(***************************************************************************)
C2_FailedSourceStaysFailed ==
  [][(rfailed /\ ifail /\ ReadStep) =>
       (rret' = "false" /\ pos' = pos /\ delivered' = delivered)]_vars

C2_Witness ==
  /\ Whole
  /\ ruse.name = "ReadRecord"
  /\ Len(delivered) >= 1
  /\ rcalls >= Len(delivered) + 2
  /\ ifail
  /\ rret = "false"

(***************************************************************************)
(* C3. Ownership: the arrays the reader made and has not deleted are       *)
(* exactly those handed to the caller by raw ReadRecord calls that         *)
(* returned true.                                                          *)
(***************************************************************************)
C3_NoLeak == { h.id : h \in heap } = handed

(***************************************************************************)
(* C4. Fixed-size round-trip: values of a type T written with Write<T>,    *)
(* all calls returning true, come back from Read<T>: the k-th Read<T>      *)
(* returns true and leaves in *t the bytes of the k-th value written.      *)
(***************************************************************************)
C4_FixedSizeRoundTrip ==
  \A M \in TypeSizes :
    ( /\ Whole
      /\ \A i \in 1..Len(written) : Len(written[i]) = M
      /\ ruse = Use("Read<T>", M)
      /\ op = "Read<T>"
      /\ rcalls <= Len(written) ) =>
        /\ rret = "true"
        /\ outT[M] = written[rcalls]
        /\ delivered = SubSeq(written, 1, rcalls)

C4_Witness ==
  /\ Whole
  /\ op = "Read<T>"
  /\ ruse.name = "Read<T>"
  /\ Len(written) >= 2
  /\ \A i \in 1..Len(written) : Len(written[i]) = ruse.size
  /\ written[1] # written[2]
  /\ rcalls = 2
  /\ rret = "true"
  /\ outT[ruse.size] = written[2]

(***************************************************************************)
(* C5. Sentinel rejection: a read operation that finds four bytes other    *)
(* than the magic at its position returns false, has consumed those four   *)
(* bytes and no more, makes no array, and delivers no payload and no       *)
(* length: the caller's string, message, T object and length are as they   *)
(* were, and the raw ReadRecord leaves a null pointer.                     *)
(***************************************************************************)
C5_SentinelRejection ==
  [][( /\ ReadStep
       /\ Len(src) - pos >= 4
       /\ SubSeq(src, pos + 1, pos + 4) # MagicImage ) =>
     ( /\ rret' = "false"
       /\ pos' = pos + 4
       /\ nalloc' = nalloc
       /\ heap' = heap
       /\ delivered' = delivered
       /\ outLen' = outLen
       /\ outStr' = outStr
       /\ outT' = outT
       /\ outMsg' = outMsg
       /\ outBuf' = IF op' = "ReadRecord" THEN NULL ELSE outBuf )]_vars

C5_Witness ==
  /\ rcalls = 1
  /\ rret = "false"
  /\ pos = 4
  /\ SubSeq(src, 1, 4) # MagicImage
  /\ Len(src) > 12
  /\ nalloc = 0
  /\ ~ifail

(***************************************************************************)
(* C6. Truncated-payload rejection: a raw ReadRecord that finds a header   *)
(* with the right magic and a length of more bytes than follow it returns  *)
(* false, leaves no array of its own behind and leaves *buffer null.       *)
(***************************************************************************)
C6_TruncatedPayload ==
  [][(ReadStep /\ op' = "ReadRecord" /\ HeaderNext /\ LengthNextTooLong) =>
       (rret' = "false" /\ heap' = heap /\ outBuf' = NULL)]_vars

(***************************************************************************)
(* C7. Size-mismatch rejection: a Read<T> that finds a header with the     *)
(* right magic and a length other than sizeof(T) returns false and leaves  *)
(* *t as it was.                                                           *)
(***************************************************************************)
C7_SizeMismatch ==
  [][(ReadStep /\ op' = "Read<T>" /\ HeaderNext /\ ~LengthNextIs(rsize')) =>
       (rret' = "false" /\ outT' = outT /\ delivered' = delivered)]_vars

C7_Witness ==
  /\ Whole
  /\ op = "Read<T>"
  /\ rcalls = 1
  /\ Len(written) >= 1
  /\ Len(written[1]) > rsize
  /\ rexit = "size"
  /\ rret = "false"
  /\ outT[rsize] = Zeros(rsize)

(***************************************************************************)
(* C8. End of stream: on a file of n whole frames read with ReadRecord,    *)
(* read number n+1 returns false, all n payloads having been delivered;    *)
(* a frame with an empty payload is a read that returns true with length   *)
(* 0, and "ABC", "", "DEFG" read four times gives true, true, true, false. *)
(***************************************************************************)
C8_EndOfStream ==
  (Whole /\ iopen /\ ruse.name = "ReadRecord") =>
    /\ rcalls = Len(written) + 1 => (rret = "false" /\ delivered = written)
    /\ (rcalls <= Len(written) /\ written[rcalls] = <<>>) =>
         /\ rret = "true"
         /\ delivered[rcalls] = <<>>
         /\ op = "ReadRecord" => (outBuf # NULL /\ outLen = LengthImage(0))
         /\ op = "ReadRecordString" => outStr = <<>>

C8_Witness ==
  /\ Whole
  /\ iopen
  /\ ruse.name = "ReadRecord"
  /\ written = << <<65, 66, 67>>, <<>>, <<68, 69, 70, 71>> >>
  /\ rcalls = 4
  /\ rret = "false"
  /\ delivered = written

(***************************************************************************)
(* C9. Writer failure reporting: a write call returns false exactly when   *)
(* the stream had failed before the call or the sink took less than the    *)
(* whole frame during it, and true otherwise; the bytes the sink took      *)
(* before it failed stay in the file.                                      *)
(***************************************************************************)
C9_WriterReports ==
  [][(wcalls' = wcalls + 1) =>
       LET frame == FrameOf(win'.data)
           cut == win'.room < Len(frame)
       IN  /\ wret' = IF ofail \/ cut THEN "false" ELSE "true"
           /\ sink' = IF ofail THEN sink ELSE sink \o Take(frame, win'.room)]_vars

C9_Witness ==
  /\ phase = "write"
  /\ op = "WriteRecord"
  /\ wret = "false"
  /\ Len(written) = 1
  /\ win.room > SizeofInt + SizeofSizeT
  /\ Len(sink) = Len(FrameOf(written[1])) + win.room

(***************************************************************************)
(* C10. Uniform result convention: Close returns true when the stream's    *)
(* failure flag is clear after the close and false when it is set.         *)
(***************************************************************************)
C10_CloseConvention ==
  /\ op = "WriterClose" => wret = Bool(~ofail)
  /\ op = "ReaderClose" => rret = Bool(~ifail)

\* the length field of the header at the read position, when it is below 256
LengthNext == src[pos + 5]

\* a whole frame lies at the read position of a stream that is good()
FrameNext ==
  /\ ~ieof /\ ~ifail
  /\ HeaderNext
  /\ ~LengthNextTooLong

\* the payload of the frame at the read position
PayloadNext == SubSeq(src, pos + 13, pos + 12 + LengthNext)

(***************************************************************************)
(* C11. Read-and-deserialize: ReadProtocolMessage returns true exactly     *)
(* when a whole frame is read and its payload parses; it returns false,    *)
(* the message untouched, when the frame read fails; and it returns false  *)
(* with the whole frame consumed when the frame is read and the parse      *)
(* fails.                                                                  *)
(***************************************************************************)
C11_ReadAndDeserialize ==
  [][(ReadStep /\ op' = "ReadProtocolMessage") =>
       LET parses == FrameNext /\ ParseFromArray(PayloadNext)
       IN  /\ rret' = Bool(parses)
           /\ ~FrameNext => outMsg' = outMsg
           /\ (FrameNext /\ ~parses) => pos' = pos + 12 + LengthNext]_vars

\* the calls cs made one after another on the stream st, nothing else
\* running: the stream they leave, and whether each call gives what cs
\* records for it
RECURSIVE Alone(_, _)
Alone(st, cs) ==
  IF cs = <<>> THEN [st |-> st, same |-> TRUE]
  ELSE LET c == Head(cs)
           r == Apply(st, c.name, c.arg, c.room)
           rest == Alone(r.st, Tail(cs))
       IN  [st |-> rest.st,
            same |-> r.ret = c.ret /\ r.data = c.data /\ rest.same]

(***************************************************************************)
(* C12. Instance independence: with two instances (two writers, a writer   *)
(* and a reader, or two readers) made on streams of their own, however     *)
(* their calls interleave, each instance's stream and each call's result   *)
(* are those of that instance's calls run alone on its stream.             *)
(***************************************************************************)
C12_InstanceIndependence ==
  \A i \in Instances :
    insts[i].class # "none" =>
      LET a == Alone(opened[i], calls[i])
      IN  a.same /\ streams[i] = a.st

C12_Witness ==
  /\ insts[1].class = "RecordWriter"
  /\ insts[2].class = "RecordReader"
  /\ Len(calls[1]) = 2
  /\ Len(calls[2]) = 2
  /\ calls[1][1].ret = "true"
  /\ calls[1][2].ret = "false"
  /\ calls[2][1].ret = "true"
  /\ calls[2][2].ret = "false"
  /\ streams[1].bytes # streams[2].bytes

\* the source is exhausted: the stream is not good(), or fewer bytes than a
\* magic number are left
Exhausted == ieof \/ ifail \/ Len(src) - pos < SizeofInt

\* four bytes other than the magic lie at the read position
MagicMismatch ==
  /\ ~ieof /\ ~ifail
  /\ Len(src) - pos >= SizeofInt
  /\ SubSeq(src, pos + 1, pos + SizeofInt) # MagicImage

(***************************************************************************)
(* C13. End of file and corruption look alike: a raw ReadRecord on an      *)
(* exhausted source and one that meets four bytes other than the magic     *)
(* give the caller the same values: false, a null *buffer, and *len as it  *)
(* was before the call.                                                    *)
(***************************************************************************)
C13_NoFrameAlike ==
  [][(ReadStep /\ op' = "ReadRecord" /\ (Exhausted \/ MagicMismatch)) =>
       <<rret', outBuf', outLen'>> = <<"false", NULL, outLen>>]_vars

\* a raw ReadRecord has delivered an array, and a later one met bytes other
\* than the magic in the middle of the file
C13_Witness ==
  /\ op = "ReadRecord"
  /\ rexit = "magic"
  /\ ~ifail
  /\ rret = "false"
  /\ handed # {}
  /\ outBuf = NULL
  /\ outLen = LengthImage(0)

\* a raw ReadRecord has delivered an array, and the next one found the
\* source exhausted
C13_WitnessExhausted ==
  /\ op = "ReadRecord"
  /\ rexit = "magic"
  /\ ifail /\ ieof
  /\ rret = "false"
  /\ rcalls = 2
  /\ handed # {}
  /\ outBuf = NULL
  /\ outLen = LengthImage(3)

\* one frame per payload of ps, in order
RECURSIVE Frames(_)
Frames(ps) == IF ps = <<>> THEN <<>> ELSE FrameOf(Head(ps)) \o Frames(Tail(ps))

(***************************************************************************)
(* C14. Stream shape: while every WriteRecord / Write<T> /                 *)
(* WriteProtocolMessage call has returned true, the sink holds exactly     *)
(* one frame per call, in call order: the magic, the length of the call's  *)
(* payload, the payload.                                                   *)
(***************************************************************************)
C14_StreamShape ==
  wallok => (Len(written) = wcalls /\ sink = Frames(written))

C14_Witness ==
  /\ wallok
  /\ wcalls = 2
  /\ op = "Write<T>"
  /\ written[1] = <<>>
  /\ Len(written[2]) = 4
  /\ Len(sink) = 28

(***************************************************************************)
(* C15. Frame boundary: a read that returns true found a whole frame at    *)
(* its position and has advanced by sizeof(magic) + sizeof(length) + the   *)
(* frame's length; on a file as the writer left it, read without a         *)
(* failure, the position after k reads is the end of frame k; and the      *)
(* array a raw ReadRecord hands over holds exactly *len bytes.             *)
(***************************************************************************)
C15_FrameBoundary ==
  [][(ReadStep /\ rret' = "true") =>
       /\ FrameNext
       /\ pos' = pos + SizeofInt + SizeofSizeT + LengthNext
       /\ (Whole /\ ~rfailed) =>
            pos' = Len(Frames(SubSeq(written, 1, Len(delivered'))))
       /\ op' = "ReadRecord" =>
            /\ BytesToSize(outLen') = LengthNext
            /\ \E h \in heap' :
                 h.id = outBuf' /\ Len(h.data) = BytesToSize(outLen')]_vars

C15_Witness ==
  /\ Whole
  /\ ~rfailed
  /\ op = "ReadRecord"
  /\ rret = "true"
  /\ rcalls = 2
  /\ Len(written) = 2
  /\ Len(written[1]) = 4
  /\ Len(written[2]) = 3
  /\ pos = 31
  /\ \E h \in heap : h.id = outBuf /\ h.data = written[2]

(***************************************************************************)
(* C16. No payload on failure: a read call that returns false leaves the   *)
(* caller's destination as it was before the call: the string of the      *)
(* string ReadRecord, *len of the raw ReadRecord and *t of Read<T>.        *)
(***************************************************************************)
C16_NoPayloadOnFailure ==
  [][(ReadStep /\ rret' = "false") =>
       (outStr' = outStr /\ outLen' = outLen /\ outT' = outT)]_vars

(***************************************************************************)
(* C17. Reading until the first failure terminates: on every file, a       *)
(* consumer that calls read operations until one does not return true      *)
(* stops after finitely many calls; every read that returned true has      *)
(* consumed a header at least, so the reads that returned true are at most *)
(* the file size divided by the header size, and the calls one more.       *)
(***************************************************************************)
C17_DrainTerminates ==
  /\ [](/\ Len(delivered) * (SizeofInt + SizeofSizeT) <= pos
        /\ pos <= Len(src)
        /\ rcalls <= Len(src) \div (SizeofInt + SizeofSizeT) + 1)
  /\ ((phase = "read" /\ iopen) ~> Stopped)

\* three frames delivered and the fourth call false; and a frame delivered
\* and then bytes that are no frame
C17_Witness ==
  /\ rfailed
  /\ Len(delivered) = 3
  /\ rcalls = 4
  /\ pos = Len(src)

C17_WitnessGarbage ==
  /\ rfailed
  /\ Len(delivered) = 1
  /\ rcalls = 2
  /\ ~ifail

\* t is the beginning of a frame and less than the frame
CutFrame(t) ==
  \E p \in Payloads : Len(t) < Len(FrameOf(p)) /\ t = Take(FrameOf(p), Len(t))

(***************************************************************************)
(* C18. Prefix recovery: a file left by a writer whose write calls         *)
(* returned true k times and then false holds the k frames and the         *)
(* beginning of one more, cut anywhere; read with ReadRecord, the first k  *)
(* reads return true and deliver the k payloads in order, read k+1         *)
(* returns false, and no later read returns true: the cut frame is never   *)
(* delivered.                                                              *)
(***************************************************************************)
C18_PrefixRecovery ==
  (phase = "read" /\ ~wallok) =>
    /\ Take(src, Len(Frames(written))) = Frames(written)
    /\ CutFrame(SubSeq(src, Len(Frames(written)) + 1, Len(src)))
    /\ IF rcalls <= Len(written)
         THEN ~rfailed /\ delivered = SubSeq(written, 1, rcalls)
         ELSE /\ rfailed
              /\ delivered = written
              /\ iopen => rret = "false"

\* two frames and a third cut inside its payload; the third and the fourth
\* read return false
C18_Witness ==
  /\ phase = "read"
  /\ ~wallok
  /\ iopen
  /\ Len(written) = 2
  /\ written[1] # written[2]
  /\ Len(src) > Len(Frames(written)) + SizeofInt + SizeofSizeT
  /\ rcalls = 4
  /\ rret = "false"
  /\ delivered = written

(***************************************************************************)
(* C19. Sticky writer failure: once a write call has returned false,       *)
(* every later WriteRecord / Write<T> / WriteProtocolMessage call on the   *)
(* writer returns false and adds no byte to the sink, whatever room the    *)
(* sink has by then.                                                       *)
(***************************************************************************)
C19_StickyWriterFailure ==
  [][(wcalls' = wcalls + 1 /\ ~wallok) =>
       (wret' = "false" /\ sink' = sink /\ written' = written)]_vars

\* a first call cut in its payload, and a second call with room for its
\* whole frame
C19_Witness ==
  /\ phase = "write"
  /\ wcalls = 2
  /\ written = <<>>
  /\ Len(sink) > SizeofInt + SizeofSizeT
  /\ win.room = FrameLen(win.data)
  /\ Len(win.data) > 0
  /\ wret = "false"

\* ThumbnailLibrary::Read has returned
ReadReturned == phase = "read" /\ ~iopen

(***************************************************************************)
(* C20. Thumbnail load count: when ThumbnailLibrary::Read has returned,    *)
(* the library holds one entry per Read<Thumbnail> call that returned      *)
(* true, in the order of the calls, and nothing else: the placeholder of   *)
(* the call that returned false is gone.  When the file is the one         *)
(* ThumbnailLibrary::Write left, every Write<Thumbnail> having returned    *)
(* true, the library holds the thumbnails of the written library, in the   *)
(* same order.                                                             *)
(***************************************************************************)
C20_ThumbnailLoad ==
  ReadReturned =>
    /\ thumbnails_.load = delivered
    /\ Len(thumbnails_.load) = rcalls - 1
    /\ (wallok /\ ~damaged) => thumbnails_.load = thumbnails_.gen

C20_Witness ==
  /\ ReadReturned
  /\ wallok
  /\ ~damaged
  /\ thumbnails_.gen = <<ThumbnailOf(2), ThumbnailOf(1)>>
  /\ thumbnails_.load = thumbnails_.gen
  /\ rcalls = 3

\* the file was cut inside the second thumbnail: Read loads the first
C20_WitnessCut ==
  /\ ReadReturned
  /\ ~wallok
  /\ Len(thumbnails_.gen) = 2
  /\ Len(src) > SizeofThumbnail + 2 * (SizeofInt + SizeofSizeT)
  /\ thumbnails_.load = <<thumbnails_.gen[1]>>
====
